---------------------------- MODULE Spec2Model ----------------------------
(***************************************************************************)
(* Model of the social-screenshot capture pipeline (screenshot.js and      *)
(* ui-server.js): the batch scheduler processInParallel, the per-URL       *)
(* pipeline processUrl, the shared browser handle (getBrowser and          *)
(* closeBrowser), the rasterizer generateScreenshot and the artifact       *)
(* writer.  Every await of the JavaScript code is a point where another    *)
(* task may run; the synchronous code between two awaits is one step.      *)
(***************************************************************************)
EXTENDS Naturals, Integers, Sequences, FiniteSets, TLC

VARIABLES
    urls,             \* config.urls: the input list, fixed during the run
    concurrency,      \* config.parallel as handed to processInParallel
    launchOk,         \* environment: does chromium.launch() succeed on this host
    diskOk,           \* environment: does fs.writeFileSync succeed in outputDir
    mainPc,           \* position of main() / processInParallel
    fatal,            \* main() rejected: the main().catch handler runs
    i,                \* loop variable i of processInParallel (0-based, as in the code)
    k,                \* batchIndex reached by batch.map (number of calls made)
    results,          \* the results array of processInParallel
    task,             \* per input position: the locals of its processUrl call
    browserInstance,  \* the module-level browserInstance (0 = null)
    launched,         \* number of engine instances chromium.launch() has produced
    closedB,          \* engine instances on which close() was called
    pages,            \* positions whose generateScreenshot page is open
    contexts,         \* positions whose scraper browser context is open
    scraped,          \* positions for which an extractor was called
    files,            \* names of the files written to the output directory
    now,              \* the value Date.now() returns
    unit              \* the calls studied at function level, one field each:
                      \*   image:    one call of imageToBase64 or downloadImage
                      \*   classify: calls of detectPlatform on one URL
                      \*   naming:   two captures of one batch naming and
                      \*             writing their files
                      \*   metadata: one call of buildMetadataPayload
                      \*   render:   one call of a render function
                      \*   thread:   one call of a thread render function
                      \*   extractor: one call of a fetch-based extractor
                      \*   twitter:  one call of scrapeTwitter(Thread)
                      \*   shot:     one call of generateScreenshot
                      \*   item:     one call of processUrl, file by file
                      \*   batch:    the concurrency option and the wave loop

vars == <<urls, concurrency, launchOk, diskOk, mainPc, fatal, i, k, results, task,
          browserInstance, launched, closedB, pages, contexts, scraped,
          files, now, unit>>

-----------------------------------------------------------------------------
(* Bounds of the model *)

MaxUrls == 3
MaxConcurrency == 2

NULL == 0

-----------------------------------------------------------------------------
(* URLs.  A URL is the sequence of its '/'-separated parts after the       *)
(* scheme: <<host, segment, ...>>.                                         *)

TwitterOk == <<"x.com", "user", "status", "123">>
BlueskyGone == <<"bsky.app", "profile", "bob", "post", "abc">>
ArticleNoCard == <<"cultofmac.com", "story">>
MacrumorsRelImg == <<"forums.macrumors.com", "threads", "topic.123", "post-789">>
Unmatched == <<"example.org", "page">>

UrlPool == {TwitterOk, BlueskyGone, ArticleNoCard, MacrumorsRelImg, Unmatched}

Digits == {"123", "456"}
AtHandles == {"@user"}

\* s occurs in the part tok (String.prototype.includes on one part)
Embeds == {<<"netflix.com", "x.com">>, <<"www.youtube.com", "youtube.com">>,
           <<"www.threads.net", "threads.net">>, <<"www.tiktok.com", "tiktok.com">>,
           <<"newsletters.example.com", "newsletters.">>}
HasSub(tok, s) == tok = s \/ <<tok, s>> \in Embeds

Includes(url, s) == \E n \in DOMAIN url : HasSub(url[n], s)

\* urlLower.match(/\/@[\w]+\/\d+/): a "/@handle/" part followed by digits
MatchesHandlePost(url) ==
    \E n \in DOMAIN url : n >= 2 /\ n + 1 <= Len(url)
                          /\ url[n] \in AtHandles /\ url[n + 1] \in Digits

\* url.toLowerCase(), part by part
toLowerCase(url) ==
    [n \in DOMAIN url |->
        CASE url[n] = "YouTube.com" -> "youtube.com"
          [] url[n] = "Status" -> "status"
          [] OTHER -> url[n]]

\* (variant) a URL that matches nothing is taken for a generic article
FallbackArticle == "article"

\* return 'unknown';
FallbackTag == "unknown"

detectPlatform(url) ==
    LET urlLower == toLowerCase(url) IN
    IF Includes(urlLower, "x.com") \/ Includes(urlLower, "twitter.com") THEN "twitter"
    ELSE IF Includes(urlLower, "forums.macrumors.com") THEN "macrumors"
    ELSE IF Includes(urlLower, "threads.net") THEN "threads"
    ELSE IF Includes(urlLower, "bsky.app") THEN "bluesky"
    ELSE IF /\ \/ Includes(urlLower, "mastodon.social")
               \/ Includes(urlLower, "zeppelin.flights")
               \/ \E n \in DOMAIN urlLower : urlLower[n] \in AtHandles
            /\ MatchesHandlePost(urlLower) THEN "mastodon"
    ELSE IF Includes(urlLower, "youtube.com") \/ Includes(urlLower, "youtu.be")
         THEN "youtube"
    ELSE IF Includes(urlLower, "tiktok.com") THEN "tiktok"
    ELSE IF Includes(urlLower, "cultofmac.com") \/ Includes(urlLower, "newsletters.")
         THEN "article"
    ELSE FallbackTag

\* the URLs detectPlatform is applied to at function level: a host and a path
Hosts == {"x.com", "twitter.com", "netflix.com", "forums.macrumors.com",
          "www.threads.net", "bsky.app", "mastodon.social", "zeppelin.flights",
          "fosstodon.org", "www.youtube.com", "YouTube.com", "youtu.be",
          "www.tiktok.com", "cultofmac.com", "newsletters.example.com",
          "example.org"}

Paths == {<<>>, <<"page">>, <<"@user">>, <<"@user", "123">>,
          <<"@user", "video", "123">>, <<"user", "Status", "456">>,
          <<"share", "x.com">>}

ClassifyUrls == {<<h>> \o p : h \in Hosts, p \in Paths}

ClassifyIdle == [url |-> <<>>, calls |-> 0, tag |-> "", again |-> ""]

\* the URLs of the captures that name their files at function level; a URL
\* that ends with '/' has the empty string as its last part
NameUrls == {TwitterOk, <<"x.com", "other", "status", "123">>,
             <<"bsky.app", "profile", "bob", "post", "123">>,
             <<"cultofmac.com", "news", "a", "">>,
             <<"cultofmac.com", "news", "b", "">>,
             <<"cultofmac.com", "a-very-long-article-slug-one">>,
             <<"cultofmac.com", "a-very-long-article-slug-two">>,
             MacrumorsRelImg}

NamingIdle ==
    [urls |-> <<>>, clock |-> 0, pc |-> <<>>, base |-> <<>>, written |-> {},
     lost |-> {}]

\* .replace(/[^a-zA-Z0-9]/g, ''): every character outside [a-zA-Z0-9] removed
Sanitize(tok) ==
    CASE tok = "@user" -> "user"
      [] tok = "post-789" -> "post789"
      [] tok = "topic.123" -> "topic123"
      [] tok = "a-very-long-article-slug-one" -> "averylongarticleslugone"
      [] tok = "a-very-long-article-slug-two" -> "averylongarticleslugtwo"
      [] OTHER -> tok

\* .slice(0, 20): the first 20 characters
Slice20(tok) ==
    CASE tok = "averylongarticleslugone" -> "averylongarticleslug"
      [] tok = "averylongarticleslugtwo" -> "averylongarticleslug"
      [] OTHER -> tok

\* urlHash of generateFilename: url.split('/').pop(), sanitized and cut
urlHash(url) == Slice20(Sanitize(url[Len(url)]))

\* generateFilename(url, platform) with Date.now() = t, the ".png" removed
generateFilename(url, platform, t) ==
    [platform |-> platform, hash |-> urlHash(url), ts |-> t]

FileName(b, kind, n) == [base |-> b, kind |-> kind, n |-> n]

NoBase == [platform |-> "", hash |-> "", ts |-> 0]
NoFile == FileName(NoBase, "", 0)

-----------------------------------------------------------------------------
(* The environment: what the network, the browser and the disk answer for  *)
(* a URL.  It is a function of the URL alone.                              *)
(*   extract: the extractor's page load / API call ("ok" or "fail")        *)
(*   card:    setContent, image wait, .card lookup and screenshot          *)
(*   media:   per original image URL, what downloadImage does: the file    *)
(*            is "saved", the promise resolves to null ("absent"), or      *)
(*            http.get throws on a relative URL ("throws")                 *)

World(url) ==
    CASE url = TwitterOk ->
           [extract |-> "ok", card |-> "ok", media |-> <<"saved">>]
      [] url = BlueskyGone ->
           [extract |-> "fail", card |-> "ok", media |-> <<>>]
      [] url = ArticleNoCard ->
           [extract |-> "ok", card |-> "fail", media |-> <<"absent">>]
      [] url = MacrumorsRelImg ->
           [extract |-> "ok", card |-> "ok", media |-> <<"absent", "throws">>]
      [] OTHER ->
           [extract |-> "ok", card |-> "ok", media |-> <<>>]

\* url.match(/status\/(\d+)/) of scrapeTwitter
ValidTwitterUrl(url) ==
    \E n \in DOMAIN url : n + 1 <= Len(url) /\ url[n] = "status" /\ url[n + 1] \in Digits

BrowserPlatforms == {"twitter"}
FetchPlatforms == {"macrumors", "bluesky", "mastodon", "threads", "youtube",
                   "tiktok", "article"}

-----------------------------------------------------------------------------
(* imageToBase64 and downloadImage, at function level: one call, the       *)
(* server's answers to its requests, and how the returned promise settles. *)

MaxHops == 2

\* image URL strings: empty, relative, malformed, absolute http and https
ImgUrls == {"", "/media/a.png", "http://", "http://cdn.example.org/a.png",
            "https://cdn.example.org/a.png"}

\* protocol.get(url, ...) parses url with new URL(url), which throws a
\* TypeError (ERR_INVALID_URL) unless url is an absolute URL
ParsesAsUrl(url) ==
    url \in {"http://cdn.example.org/a.png", "https://cdn.example.org/a.png"}

\* What the server does with one request: status 0 stands for a connection
\* error (the request's 'error' event); location "" for no Location header;
\* body is how the response stream goes: it ends, or it emits 'error', or
\* the write stream of the target file emits 'error'.
Response(status, location, body) ==
    [status |-> status, location |-> location, body |-> body]

Redirects ==
    {Response(301, l, "end") : l \in ImgUrls}

Finals ==
    {Response(0, "", "end")}
        \cup {Response(st, "", b) : st \in {200, 204, 404, 500}, b \in {"end", "resError"}}
        \cup {Response(200, "", "fileError"), Response(302, "", "end")}

\* res.statusCode >= 300 && res.statusCode < 400 && res.headers.location
IsRedirect(r) == r.status >= 300 /\ r.status < 400 /\ r.location # ""

\* the answers to the requests of one call, one per hop: every answer but the
\* last is a redirect to a URL that can be requested
Scripts ==
    {sc \in UNION {[1 .. n -> Redirects \cup Finals] : n \in 1 .. MaxHops} :
        \A n \in DOMAIN sc :
            (n < Len(sc)) <=> (IsRedirect(sc[n]) /\ ParsesAsUrl(sc[n].location))}

ImageIdle ==
    [fn |-> "", url |-> "", script |-> <<>>, pc |-> "idle", hop |-> 0,
     out |-> "pending", file |-> FALSE, final |-> 0]

-----------------------------------------------------------------------------
(* Extractor payloads and buildMetadataPayload.  An object is the set of   *)
(* its leaves: a leaf is the path of property names that leads to it and   *)
(* the kind of value it holds ("text", "number", "url", "inline" for a     *)
(* data URI made by imageToBase64, "null", "empty" for the empty string).  *)

MaxImages == 2

\* array indexes as property names
Idx == <<"0", "1", "2", "3">>

Field(path, kind) == [path |-> path, kind |-> kind]

IsPrefix(pre, path) ==
    Len(pre) <= Len(path) /\ SubSeq(path, 1, Len(pre)) = pre

\* the leaves of the value at path pre
Under(fields, pre) == {e \in fields : IsPrefix(pre, e.path)}

\* the same leaves, at path to instead of path from
Moved(fields, from, to) ==
    {Field(to \o SubSeq(e.path, Len(from) + 1, Len(e.path)), e.kind) :
        e \in Under(fields, from)}

Leaves(pre, names, kind) == {Field(pre \o <<f>>, kind) : f \in names}

\* author: { name, handle / title, avatar: avatarBase64, avatarUrl, ... }
AuthorOf(pre, avatar, names) ==
    {Field(pre \o <<"author", f>>,
           IF f = "avatar" THEN avatar ELSE IF f = "avatarUrl" THEN "url" ELSE "text") :
        f \in names}

\* images: imagesBase64 and originalImageUrls, n images
ImagesOf(pre, n) ==
    {Field(pre \o <<"images", Idx[m]>>, "inline") : m \in 1 .. n}
        \cup {Field(pre \o <<"originalImageUrls", Idx[m]>>, "url") : m \in 1 .. n}

\* one social post, as scrapeTwitter, formatBlueskyPost, scrapeMastodon and
\* scrapeThreads return it
Post(pre, avatar, n, text, counters) ==
    AuthorOf(pre, avatar, {"name", "handle", "avatar", "avatarUrl", "verified"})
        \cup ImagesOf(pre, n)
        \cup Leaves(pre, {"content"}, text)
        \cup Leaves(pre, {"platform", "timestamp", "url"}, "text")
        \cup Leaves(pre \o <<"metrics">>, counters, "number")

\* a video, as scrapeYouTube and scrapeTikTok return it
Video(thumbnail, text, ids) ==
    Leaves(<<"author">>, {"name", "handle"}, "text")
        \cup {Field(<<"author", "avatar">>, "null"), Field(<<"author", "avatarUrl">>, "empty")}
        \cup Leaves(<<>>, {"platform", "title", "url"}, "text")
        \cup Leaves(<<>>, {"description"}, text)
        \cup {Field(<<"thumbnail">>, thumbnail), Field(<<"thumbnailUrl">>, "url"),
              Field(<<"originalImageUrls", "0">>, "url")}
        \cup Leaves(<<"video">>, ids, "text")

\* the object an extractor returns for platform p; avatar is what
\* imageToBase64 gave for the main picture ("inline" or "null"), n the number
\* of images, text the kind of the text ("text" or "empty")
Extracted(p, avatar, n, text) ==
    CASE p = "twitter" ->
           Post(<<>>, avatar, n, text, {"replies", "retweets", "likes", "views"})
      [] p = "twitter-thread" ->
           Leaves(<<>>, {"platform", "url"}, "text")
             \cup UNION {Post(<<"tweets", t>>, avatar, n, text, {})
                            \cup Leaves(<<"tweets", t>>, {"isMainTweet"}, "text") :
                          t \in {"0", "1"}}
      [] p = "macrumors" ->
           AuthorOf(<<>>, avatar, {"name", "title", "avatar", "avatarUrl"})
             \cup ImagesOf(<<>>, n)
             \cup Leaves(<<>>, {"content"}, text)
             \cup Leaves(<<>>, {"platform", "postNumber", "timestamp", "reactions",
                                "url"}, "text")
      [] p = "bluesky" ->
           Post(<<>>, avatar, n, text, {"replies", "reposts", "likes"})
      [] p = "mastodon" ->
           Post(<<>>, avatar, n, text, {"replies", "boosts", "favorites"})
             \cup Leaves(<<>>, {"instance"}, "text")
      [] p = "threads" ->
           (Post(<<>>, avatar, 0, text, {}) \ Leaves(<<>>, {"timestamp"}, "text"))
             \cup Leaves(<<>>, {"timestamp"}, "null")
      [] p = "article" ->
           Leaves(<<>>, {"platform", "siteName", "title", "url"}, "text")
             \cup Leaves(<<>>, {"description"}, text)
             \cup {Field(<<"image">>, avatar), Field(<<"imageUrl">>, "url"),
                   Field(<<"originalImageUrls", "0">>, "url"),
                   Field(<<"favicon">>, IF n = 0 THEN "null" ELSE "inline"),
                   Field(<<"faviconUrl">>, IF n = 0 THEN "empty" ELSE "url")}
      [] p = "youtube" -> Video(avatar, text, {"id", "url", "authorUrl"})
      [] p = "tiktok" -> Video(avatar, text, {"url", "authorUrl"})

PayloadPlatforms == {"twitter", "twitter-thread", "macrumors", "bluesky", "mastodon",
                     "threads", "article", "youtube", "tiktok"}

\* (variant) payload.author = data.author
AuthorFieldsAll == {"name", "handle", "title", "avatar", "avatarUrl", "verified"}

\* payload.author = { name, handle, title, avatarUrl, verified }
AuthorFields == {"name", "handle", "title", "avatarUrl", "verified"}

\* the author of a thread's tweet: { name, handle, avatarUrl, verified }
TweetAuthorFields == {"name", "handle", "avatarUrl", "verified"}

\* the properties copied when truthy: if (data.x) payload.x = data.x
CopiedFields == {"content", "title", "description", "timestamp", "metrics",
                 "siteName", "instance", "postNumber", "reactions", "video",
                 "faviconUrl", "imageUrl", "thumbnailUrl"}

\* if (data.x): an object is truthy; null and the empty string are not
Truthy(fields, name) ==
    \E e \in Under(fields, <<name>>) :
        Len(e.path) > 1 \/ e.kind \notin {"null", "empty"}

\* buildMetadataPayload(data, url, cardFilename, downloadedImages)
buildMetadataPayload(data) ==
    LET fields == data.fields
        head == {Field(<<"platform">>, "text"), Field(<<"url">>, "text"),
                 Field(<<"card">>, "text"), Field(<<"media", "downloaded">>, "text")}
        tweets == {e.path[2] : e \in Under(fields, <<"tweets">>)}
    IN IF data.platform = "twitter-thread" /\ tweets # {}
       THEN head
              \cup {e \in fields : /\ Len(e.path) = 4
                                   /\ IsPrefix(<<"tweets">>, e.path)
                                   /\ e.path[3] = "author"
                                   /\ e.path[4] \in TweetAuthorFields}
              \cup {e \in fields : /\ Len(e.path) = 3
                                   /\ IsPrefix(<<"tweets">>, e.path)
                                   /\ e.path[3] \in {"content", "timestamp",
                                                      "isMainTweet"}}
              \cup UNION {Under(fields, <<"tweets", t, "originalImageUrls">>) :
                            t \in tweets}
              \cup UNION {Moved(fields, <<"tweets", t, "originalImageUrls">>,
                                 <<"media", "originalUrls", t>>) : t \in tweets}
       ELSE head
              \cup {e \in Under(fields, <<"author">>) :
                       Len(e.path) = 2 /\ e.path[2] \in AuthorFields}
              \cup UNION {Under(fields, <<f>>) :
                            f \in {g \in CopiedFields : Truthy(fields, g)}}
              \cup Moved(fields, <<"originalImageUrls">>, <<"media", "originalUrls">>)

MetadataIdle == [data |-> [platform |-> "", fields |-> {}], out |-> {}, pc |-> "idle"]

-----------------------------------------------------------------------------
(* escapeHtml and the render functions.  A text is the sequence of its     *)
(* characters; a document is the sequence of the texts its template puts   *)
(* in place of the payload's text properties.                              *)

MaxLen == 2

Alphabet == {"a", "<", ">", "&", "'"}

Texts == UNION {[1 .. n -> Alphabet] : n \in 0 .. MaxLen}

\* text.replace(/c/g, r)
RECURSIVE replace(_, _, _)
replace(text, c, r) ==
    IF text = <<>> THEN <<>>
    ELSE (IF Head(text) = c THEN r ELSE <<Head(text)>>) \o replace(Tail(text), c, r)

Entities == [amp |-> <<"&", "a", "m", "p", ";">>,
             lt |-> <<"&", "l", "t", ";">>,
             gt |-> <<"&", "g", "t", ";">>,
             quot |-> <<"&", "q", "u", "o", "t", ";">>,
             apos |-> <<"&", "#", "0", "3", "9", ";">>]

\* escapeHtml(text): '' for a falsy text, else the five replacements in the
\* order of the code, '&' first
escapeHtml(text) ==
    IF text = <<>> THEN <<>>
    ELSE replace(replace(replace(replace(replace(text,
             "&", Entities.amp), "<", Entities.lt), ">", Entities.gt),
             "\"", Entities.quot), "'", Entities.apos)

\* what a template puts in place of a text property: ${escapeHtml(x)} or ${x}
Escaped(field, text) == [field |-> field, text |-> escapeHtml(text)]
Raw(field, text) == [field |-> field, text |-> text]

\* ${data.x ? `...${...}...` : ''}
WhenTruthy(text, slot) == IF text = <<>> THEN <<>> ELSE <<slot>>

\* name, handle and content of a post: the Twitter, Bluesky and Mastodon
\* templates, standard and bento
PostSlots(pre, t) ==
    <<Escaped(pre \o "author.name", t), Escaped(pre \o "author.handle", t),
      Escaped(pre \o "content", t)>>

\* The text slots of the template of each render function, in document
\* order, for a payload whose text properties all hold t.  The bento
\* templates have the slots of the standard ones.
Template(platform, variant, t) ==
    CASE platform \in {"twitter", "threads", "bluesky", "mastodon"} -> PostSlots("", t)
      [] platform = "twitter-thread" ->
           PostSlots("tweets.0.", t) \o PostSlots("tweets.1.", t)
      [] platform = "macrumors" ->
           <<Escaped("author.name", t),
             Escaped("author.title", IF t = <<>> THEN <<"m", "e", "m", "b", "e", "r">> ELSE t)>>
             \o WhenTruthy(t, Raw("postNumber", <<"#">> \o t))
             \o <<Escaped("content", t)>>
             \o WhenTruthy(t, Escaped("reactions", t))
      [] platform = "article" ->
           <<Escaped("siteName", t), Escaped("title", t), Escaped("description", t)>>
      [] platform = "youtube" ->
           <<Escaped("title", t), Escaped("author.name", t)>>
      [] platform = "tiktok" ->
           <<Escaped("title", t), Escaped("author.handle", t)>>

\* the objects a template dereferences (data.author.name, data.images.map,
\* data.metrics.likes) and the objects the platform's payload has
TemplateObjects(platform) ==
    CASE platform \in {"twitter", "threads", "bluesky", "mastodon"} ->
           {"author", "images", "metrics"}
      [] platform = "twitter-thread" -> {"tweets", "author", "images"}
      [] platform = "macrumors" -> {"author", "images"}
      [] platform = "article" -> {}
      [] platform \in {"youtube", "tiktok"} -> {"author"}

PayloadObjects(platform) ==
    CASE platform \in {"twitter", "threads", "bluesky", "mastodon"} ->
           {"author", "images", "originalImageUrls", "metrics"}
      [] platform = "twitter-thread" ->
           {"tweets", "author", "images", "originalImageUrls"}
      [] platform = "macrumors" -> {"author", "images", "originalImageUrls"}
      [] platform = "article" -> {"originalImageUrls"}
      [] platform \in {"youtube", "tiktok"} -> {"author", "originalImageUrls", "video"}

RenderIdle == [platform |-> "", variant |-> "", text |-> <<>>, doc |-> <<>>,
               threw |-> FALSE, pc |-> "idle"]

-----------------------------------------------------------------------------
(* renderTwitterThreadCard and renderBentoTwitterThreadCard: the post      *)
(* blocks of the document                                                  *)

MaxTweets == 3

\* the tweets a thread payload is made of
TweetPool == {[id |-> "a", isMainTweet |-> TRUE], [id |-> "b", isMainTweet |-> FALSE],
              [id |-> "c", isMainTweet |-> FALSE]}

ThreadPayloads == UNION {[1 .. n -> TweetPool] : n \in 1 .. MaxTweets}

\* (variant) the index is compared with the length
isLastOffByOne(index, length) == index = length

\* const isLast = index === threadData.tweets.length - 1 (index from 0)
isLast(index, length) == index = length - 1

\* threadData.tweets.map((tweet, index) => `<div class="tweet ...">...`): one
\* block per tweet, in the order of the array; the connector line is in the
\* block unless it is the last; only the standard template marks the main
\* tweet
ThreadBlocks(tweets, variant) ==
    [n \in 1 .. Len(tweets) |->
        [tweet |-> tweets[n].id,
         connector |-> ~isLast(n - 1, Len(tweets)),
         main |-> variant = "standard" /\ tweets[n].isMainTweet]]

ThreadIdle == [tweets |-> <<>>, variant |-> "", blocks |-> <<>>, pc |-> "idle"]

-----------------------------------------------------------------------------
(* scrapeMacrumors, scrapeBluesky with formatBlueskyPost, scrapeMastodon   *)
(* and scrapeThreads, at function level: one call, its network calls and   *)
(* what it returns or throws                                               *)

MaxMedia == 5

\* images.slice(0, 4)
InlineCap == 4

ExtractPlatforms == {"macrumors", "bluesky", "mastodon", "threads"}

\* the extractors that slice the list of media references before inlining
Sliced == {"twitter", "twitter-thread", "macrumors"}

\* what a network call gives: it rejects (socket error, body that is not
\* JSON), or resolves to a document that lacks what the extractor looks for
\* (an error object of the API, a page without the post container), or to a
\* document that has it.  Neither fetchHTML nor fetchJSON looks at the
\* status code.
Replies == {"throws", "lacking", "full"}

\* the media references the extractor passes to imageToBase64, as positions
\* in the list of n references of the document
Considered(platform, n) ==
    CASE platform \in Sliced -> IF n < InlineCap THEN n ELSE InlineCap
      [] platform \in {"bluesky", "mastodon"} -> n
      [] OTHER -> 0

\* for (const imgUrl of ...) { const base64 = await imageToBase64(imgUrl);
\*   if (base64) imagesBase64.push(base64); }   bad: the reference whose
\* conversion gives null (0: none)
InlineImages(platform, n, bad) ==
    SelectSeq([m \in 1 .. Considered(platform, n) |-> m], LAMBDA m : m # bad)

\* the payload an extractor returns for a document that has the post
FullPayload(platform, n, bad) ==
    [platform |-> platform, name |-> "author", content |-> "text",
     images |-> InlineImages(platform, n, bad),
     originalImageUrls |-> IF platform = "threads" THEN 0 ELSE n]

\* the payload of the right-hand sides of the || defaults: 'Unknown', '', []
DefaultPayload(platform) ==
    [platform |-> platform, name |-> "Unknown", content |-> "",
     images |-> <<>>, originalImageUrls |-> 0]

NoPayload == [platform |-> "", name |-> "", content |-> "", images |-> <<>>,
              originalImageUrls |-> 0]

\* (variant) the fallback is taken whatever the direct lookup gave
AfterDirectAlways(reply) == "resolve"

\* scrapeBluesky, bridged handle: if (post) return await formatBlueskyPost(..)
\* and catch (e) { /* fall through */ }
AfterDirect(reply) == IF reply = "full" THEN "format" ELSE "resolve"

ExtractorIdle == [platform |-> "", pathOk |-> TRUE, bridged |-> FALSE,
                  reply |-> [direct |-> "full", resolve |-> "full", post |-> "full"],
                  n |-> 0, bad |-> 0, calls |-> <<>>, pc |-> "idle",
                  outcome |-> "none", payload |-> NoPayload]

-----------------------------------------------------------------------------
(* scrapeTwitter and scrapeTwitterThread, at function level: one call, its *)
(* browsing context and the entries of the thread payload                  *)

MaxContainers == 3

\* what a post container of the conversation page holds
ContainerKinds == {"empty", "text", "media"}

Pages == UNION {[1 .. n -> ContainerKinds] : n \in 0 .. MaxContainers}

\* the awaited operations of the two functions that can reject
FailPoints == {"none", "newContext", "newPage", "goto", "evaluate", "imageToBase64"}

\* tweetElements.forEach((tweetEl, index) => { ...
\*   if (text || images.length > 0) results.push({..., isMainTweet: index === 0})
\* the index is the container's position among all containers of the page
EvaluateThread(page) ==
    LET entry(n) == [container |-> n, isMainTweet |-> n - 1 = 0]
    IN  SelectSeq([n \in 1 .. Len(page) |-> entry(n)],
                  LAMBDA e : page[e.container] # "empty")

TwitterIdle == [threadMode |-> FALSE, urlOk |-> TRUE, fails |-> "none", page |-> <<>>,
                context |-> "none", tweets |-> <<>>, pc |-> "idle", outcome |-> "none"]

-----------------------------------------------------------------------------
(* generateScreenshot, at function level: one call, the img elements of    *)
(* the document and the wait for them                                      *)

MaxEmbedded == 3

\* what becomes of an img element of the document: it is complete when the
\* wait starts, its load event fires later, its error event fires later, or
\* neither event ever fires
ImgKinds == {"complete", "loads", "errors", "never"}

Documents == UNION {[1 .. n -> ImgKinds] : n \in 0 .. MaxEmbedded}

\* the awaited operations of generateScreenshot that can reject
ShotFailPoints == {"none", "newPage", "setContent", "screenshot"}

\* img.complete, or the promise of the element was resolved by onload or
\* onerror
ImgSettled(status) == status \in {"complete", "loaded", "errored"}

\* Promise.all(Array.from(document.images).map(...)) is fulfilled
AllImagesSettled(status) == \A n \in DOMAIN status : ImgSettled(status[n])

ShotIdle == [doc |-> <<>>, fails |-> "none", status |-> <<>>, page |-> "none",
             written |-> FALSE, pc |-> "idle"]

-----------------------------------------------------------------------------
(* processUrl, at function level: one call and the files it writes, in the *)
(* order it writes them                                                    *)

MaxDownloads == 3

\* what downloadImage does with one source URL: it writes the file and
\* resolves to its path, resolves to null, or throws
DownloadKinds == {"saved", "absent", "throws"}

MediaLists == UNION {[1 .. n -> DownloadKinds] : n \in 0 .. MaxDownloads}

\* a written file: its kind and, for an image, the number in its name
Artifact(kind, n) == [kind |-> kind, n |-> n]

\* (variant) the loop takes the source URLs from the last to the first
imgUrlIndexReversed(iter, length) == length + 1 - iter

\* for (let i = 0; i < length; i++) { const imgUrl = data.originalImageUrls[i]
\* the position, from 1, of the URL the iteration iter (from 1) takes; the file is
\* named `${baseFilename}-image-${i + 1}.${ext}` with the same number
imgUrlIndex(iter, length) == iter

ItemIdle == [known |-> TRUE, extract |-> "ok", card |-> "ok", media |-> <<>>,
             disk |-> TRUE, i |-> 0, written |-> <<>>, downloadedImages |-> <<>>,
             failedAt |-> "", success |-> FALSE, pc |-> "idle"]

-----------------------------------------------------------------------------
(* The concurrency option: parseArgs (--parallel <n>) and the capture      *)
(* handler of ui-server.js (payload.parallel, the value of a text input),  *)
(* and the loop of processInParallel run with the number they give         *)

MaxArg == 3
MaxBatch == 3
MaxWaves == 7

\* the characters of an option value
ArgChars == {"0", "2", "5", "-", ".", "a"}

ArgStrings == UNION {[1 .. n -> ArgChars] : n \in 0 .. MaxArg}

DecimalDigits == {"0", "2", "5"}

DigitValue(c) == CASE c = "0" -> 0 [] c = "2" -> 2 [] c = "5" -> 5

\* JavaScript numbers: NaN, or a decimal fraction kept as an integer number
\* of units of 1 / Scale
Scale == 10 ^ MaxArg

NaN == [nan |-> TRUE, scaled |-> 0]
Num(scaled) == [nan |-> FALSE, scaled |-> scaled]

RECURSIVE Decimal(_)
Decimal(ds) ==
    IF ds = <<>> THEN 0
    ELSE 10 * Decimal(SubSeq(ds, 1, Len(ds) - 1)) + DigitValue(ds[Len(ds)])

\* the number of leading decimal digits of str
LeadDigits(str) ==
    CHOOSE n \in 0 .. Len(str) :
        /\ \A m \in 1 .. n : str[m] \in DecimalDigits
        /\ n < Len(str) => str[n + 1] \notin DecimalDigits

Negative(str) == str # <<>> /\ str[1] = "-"
Unsigned(str) == IF Negative(str) THEN Tail(str) ELSE str
Signed(str, scaled) == IF Negative(str) THEN 0 - scaled ELSE scaled

\* parseInt(string): an optional sign and the longest run of digits that
\* follows it; NaN when there is no digit; what follows the digits is ignored
parseInt(str) ==
    LET body == Unsigned(str)
        n == LeadDigits(body)
    IN  IF n = 0 THEN NaN
        ELSE Num(Signed(str, Decimal(SubSeq(body, 1, n)) * Scale))

\* Number(string): 0 for the empty string; the value of a whole decimal
\* literal (sign, digits, optional point and digits); NaN for anything else
Number(str) ==
    LET body == Unsigned(str)
        n == LeadDigits(body)
        rest == SubSeq(body, n + 1, Len(body))
        frac == Tail(rest)
        whole == Decimal(SubSeq(body, 1, n)) * Scale
    IN  IF str = <<>> THEN Num(0)
        ELSE IF rest = <<>> THEN (IF n = 0 THEN NaN ELSE Num(Signed(str, whole)))
        ELSE IF /\ rest[1] = "."
                /\ \A m \in DOMAIN frac : frac[m] \in DecimalDigits
                /\ n + Len(frac) > 0
        THEN Num(Signed(str, whole + Decimal(frac) * (Scale \div (10 ^ Len(frac)))))
        ELSE NaN

DEFAULT_PARALLEL == 3
UiDefaultParallel == 3

\* value || fallback: NaN, 0 and -0 are falsy
OrDefault(value, fallback) ==
    IF value.nan \/ value.scaled = 0 THEN fallback * Scale ELSE value.scaled

\* the concurrency an entry point hands to processInParallel, scaled
ConcurrencyOf(entry, str) ==
    IF entry = "cli" THEN OrDefault(parseInt(str), DEFAULT_PARALLEL)
    ELSE OrDefault(Number(str), UiDefaultParallel)

\* ToIntegerOrInfinity of an argument of slice: the fraction is dropped
Trunc(scaled) == IF scaled >= 0 THEN scaled \div Scale ELSE 0 - ((0 - scaled) \div Scale)

\* the index slice makes of an argument: a negative one counts from the end
RelativeIndex(scaled, len) ==
    LET t == Trunc(scaled)
    IN  IF t < 0 THEN (IF len + t < 0 THEN 0 ELSE len + t)
        ELSE IF t > len THEN len ELSE t

\* urls.slice(i, i + concurrency), as the set of positions (from 0) taken
SliceOf(len, from, to) ==
    {m \in 0 .. len - 1 : RelativeIndex(from, len) <= m /\ m < RelativeIndex(to, len)}

BatchIdle == [entry |-> "", arg |-> <<>>, len |-> 0, concurrency |-> 0, at |-> 0,
              waves |-> 0, runs |-> <<>>, pc |-> "idle"]

\* no function-level call is in progress
UnitsIdle == [image |-> ImageIdle, classify |-> ClassifyIdle, naming |-> NamingIdle,
              metadata |-> MetadataIdle, render |-> RenderIdle, thread |-> ThreadIdle,
              extractor |-> ExtractorIdle, twitter |-> TwitterIdle, shot |-> ShotIdle,
              item |-> ItemIdle, batch |-> BatchIdle]

batch == unit.batch

item == unit.item

shot == unit.shot

twitter == unit.twitter

extractor == unit.extractor

render == unit.render
thread == unit.thread

image == unit.image
classify == unit.classify
naming == unit.naming
metadata == unit.metadata

-----------------------------------------------------------------------------
(* Results and the per-call locals of processUrl *)

Failure(url, msg) ==
    [success |-> FALSE, url |-> url, error |-> msg,
     cardFilename |-> NoFile, imageFilenames |-> <<>>, metadataFilename |-> NoFile]

Success(url, b, imgs) ==
    [success |-> TRUE, url |-> url, error |-> "",
     cardFilename |-> FileName(b, "card", 0), imageFilenames |-> imgs,
     metadataFilename |-> FileName(b, "metadata", 0)]

NoResult == [success |-> FALSE, url |-> <<>>, error |-> "pending",
             cardFilename |-> NoFile, imageFilenames |-> <<>>,
             metadataFilename |-> NoFile]

IdleTask == [pc |-> "idle", browser |-> NULL, base |-> NoBase,
             downloaded |-> <<>>, img |-> 0, out |-> NoResult]

Items == 1 .. Len(urls)

Settled(j) == task[j].pc \in {"done", "rejected"}

\* (variant) the error leaves processUrl: its promise rejects
Rethrown(j, msg) ==
    [task[j] EXCEPT !.pc = "rejected"]

\* the catch block of processUrl: the error becomes a failed result
Caught(j, msg) ==
    [task[j] EXCEPT !.pc = "done", !.out = Failure(urls[j], msg)]

\* (variant) the comparison uses another tag than detectPlatform returns
IsUnsupportedTag(platform) == platform = "unsupported"

\* platform === 'unknown'
IsUnknown(platform) == platform = "unknown"

\* getBrowser up to its await: is chromium.launch() called
NeedsLaunch == browserInstance = NULL

-----------------------------------------------------------------------------
(* processInParallel *)

\* (variant) the slice is one element too long
BatchWide(i0) == {j \in Items : i0 < j /\ j <= i0 + concurrency + 1}

\* urls.slice(i, i + concurrency): the positions of the wave that starts at i0
Batch(i0) == {j \in Items : i0 < j /\ j <= i0 + concurrency}

\* (variant) the wait ends with the first fulfilled promise
AnySettled(b) == \E j \in b : task[j].pc = "done"

\* await Promise.all(batchPromises) resolves once every promise is fulfilled
AllSettled(b) == \A j \in b : task[j].pc = "done"

\* (variant) a failed result ends the batch like a rejection
SomeFailed(b) ==
    \E j \in b : task[j].pc = "rejected"
                     \/ (task[j].pc = "done" /\ ~task[j].out.success)

\* ... and rejects as soon as one of them rejects
SomeRejected(b) == \E j \in b : task[j].pc = "rejected"

\* (variant) the results of a wave in the reverse of the input order
BatchResultsReversed(i0) ==
    [n \in 1 .. Cardinality(Batch(i0)) |->
        task[i0 + Cardinality(Batch(i0)) + 1 - n].out]

\* the array Promise.all resolves to: the results in the order of the promises
BatchResults(i0) == [n \in 1 .. Cardinality(Batch(i0)) |-> task[i0 + n].out]

\* the state of the function-level specifications, which no step of the
\* pipeline changes
unitVars == <<unit>>

envVars == <<urls, concurrency, launchOk, diskOk, unitVars>>
mainVars == <<mainPc, fatal, i, results>>
browserVars == <<browserInstance, launched, closedB>>

Init ==
    /\ urls \in UNION {[1 .. n -> UrlPool] : n \in 1 .. MaxUrls}
    /\ concurrency \in 1 .. MaxConcurrency
    /\ launchOk \in BOOLEAN
    /\ diskOk \in BOOLEAN
    /\ mainPc = "map"
    /\ fatal = FALSE
    /\ i = 0
    /\ k = 0
    /\ results = <<>>
    /\ task = [j \in 1 .. Len(urls) |-> IdleTask]
    /\ browserInstance = NULL
    /\ launched = 0
    /\ closedB = {}
    /\ pages = {}
    /\ contexts = {}
    /\ scraped = {}
    /\ files = {}
    /\ now = 0
    /\ unit = UnitsIdle

\* the items whose tasks may take a step: the event loop runs tasks only
\* while main is suspended at an await, and not after process.exit
Running == mainPc \in {"await", "close", "closing"}

\* The extractor or generateScreenshot has its browser b (getBrowser has
\* returned it) and opens its context (scrapeTwitter: browser.newContext and
\* context.newPage, before the try block) or its page (generateScreenshot:
\* browser.newPage); both throw on a closed engine.
Enter(j, t, b, pc) ==
    IF b \in closedB THEN [t EXCEPT !.pc = "done",
                             !.out = Failure(urls[j], "browser has been closed")]
    ELSE [t EXCEPT !.pc = pc, !.browser = b]

Opened(j, pc) == task'[j].pc = pc /\ task[j].pc # pc

\* One call processUrl(url, index, ...) made by batch.map, run up to its first
\* suspension: detectPlatform, the 'unknown' return, the switch, and the
\* start of the extractor (for twitter: the URL match and getBrowser, which
\* calls chromium.launch when there is no instance).
Dispatch(j) ==
    /\ mainPc = "map"
    /\ j \in Batch(i)
    /\ j = i + k + 1
    /\ LET platform == detectPlatform(urls[j]) IN
         IF IsUnknown(platform)
         THEN /\ task' = [task EXCEPT ![j] = [@ EXCEPT !.pc = "done",
                              !.out = Failure(urls[j], "Unknown platform")]]
              /\ UNCHANGED scraped
         ELSE IF platform \in BrowserPlatforms
         THEN /\ scraped' = scraped \cup {j}
              /\ task' = [task EXCEPT ![j] =
                     IF ~ValidTwitterUrl(urls[j]) THEN Caught(j, "Invalid Twitter URL")
                     ELSE IF NeedsLaunch THEN [@ EXCEPT !.pc = "launchX"]
                     ELSE Enter(j, @, browserInstance, "scrape")]
         ELSE IF platform \in FetchPlatforms
         THEN /\ scraped' = scraped \cup {j}
              /\ task' = [task EXCEPT ![j] = [@ EXCEPT !.pc = "fetch"]]
         ELSE /\ task' = [task EXCEPT ![j] = Caught(j, "Platform not implemented")]
              /\ UNCHANGED scraped
    /\ contexts' = IF Opened(j, "scrape") THEN contexts \cup {j} ELSE contexts
    /\ k' = k + 1
    /\ mainPc' = IF k + 1 = Cardinality(Batch(i)) THEN "await" ELSE "map"
    /\ UNCHANGED <<envVars, fatal, i, results, browserVars, pages, files, now>>

\* const batchResults = await Promise.all(batchPromises);
\* results.push(...batchResults); the loop's i += concurrency and test
AwaitAll ==
    /\ mainPc = "await"
    /\ AllSettled(Batch(i)) \/ SomeRejected(Batch(i))
    /\ IF SomeRejected(Batch(i))
       THEN /\ fatal' = TRUE
            /\ mainPc' = "close"
            /\ UNCHANGED <<i, k, results>>
       ELSE /\ results' = results \o BatchResults(i)
            /\ i' = i + concurrency
            /\ k' = 0
            /\ mainPc' = IF i + concurrency < Len(urls) THEN "map" ELSE "close"
            /\ UNCHANGED fatal
    /\ UNCHANGED <<envVars, task, browserVars, pages, contexts, scraped, files, now>>

-----------------------------------------------------------------------------
(* getBrowser / closeBrowser *)

\* browserInstance = await chromium.launch(...) resumes: the assignment and
\* the return of getBrowser, in the scraper ("launchX") or in
\* generateScreenshot ("launchS"); a failed launch rejects getBrowser
LaunchDone(j) ==
    /\ Running
    /\ task[j].pc \in {"launchX", "launchS"}
    /\ IF launchOk
       THEN /\ launched' = launched + 1
            /\ browserInstance' = launched + 1
            /\ task' = [task EXCEPT ![j] = Enter(j, @, launched + 1,
                   IF task[j].pc = "launchX" THEN "scrape" ELSE "capture")]
       ELSE /\ task' = [task EXCEPT ![j] = Caught(j, "browser launch failed")]
            /\ UNCHANGED <<launched, browserInstance>>
    /\ contexts' = IF Opened(j, "scrape") THEN contexts \cup {j} ELSE contexts
    /\ pages' = IF Opened(j, "capture") THEN pages \cup {j} ELSE pages
    /\ UNCHANGED <<envVars, mainVars, k, closedB, scraped, files, now>>

\* closeBrowser up to its await: browserInstance.close() is called, which
\* ends the engine together with its pages and contexts
CloseBrowser ==
    /\ mainPc = "close"
    /\ IF browserInstance # NULL
       THEN /\ closedB' = closedB \cup {browserInstance}
            /\ pages' = {p \in pages : task[p].browser # browserInstance}
            /\ contexts' = {c \in contexts : task[c].browser # browserInstance}
            /\ mainPc' = "closing"
       ELSE /\ mainPc' = "done"
            /\ UNCHANGED <<closedB, pages, contexts>>
    /\ UNCHANGED <<envVars, fatal, i, k, results, task, browserInstance, launched,
                   scraped, files, now>>

\* closeBrowser after its await: browserInstance = null; main returns (or the
\* catch handler calls process.exit(1))
CloseDone ==
    /\ mainPc = "closing"
    /\ browserInstance' = NULL
    /\ mainPc' = "done"
    /\ UNCHANGED <<envVars, fatal, i, k, results, task, launched, closedB, pages,
                   contexts, scraped, files, now>>

-----------------------------------------------------------------------------
(* scrapeTwitter *)

\* page.goto, waitForSelector, page.evaluate, then context.close() on the
\* success path and in the catch block
Scrape(j) ==
    /\ Running
    /\ task[j].pc = "scrape"
    /\ contexts' = contexts \ {j}
    /\ task' = [task EXCEPT ![j] =
           IF World(urls[j]).extract = "ok" /\ task[j].browser \notin closedB
           THEN [@ EXCEPT !.pc = "inline"]
           ELSE Caught(j, "Could not fetch tweet")]
    /\ UNCHANGED <<envVars, mainVars, k, browserVars, pages, scraped, files, now>>

-----------------------------------------------------------------------------
(* processUrl after the extractor, generateScreenshot, the artifact writer *)

\* The synchronous code that follows the extractor's last await: the render
\* function, generateFilename (reads the clock), and generateScreenshot:
\* getBrowser, which calls chromium.launch when there is no instance, else
\* browser.newPage().
ToScreenshot(j) ==
    /\ task' = [task EXCEPT ![j] =
           LET t == [@ EXCEPT !.base =
                        generateFilename(urls[j], detectPlatform(urls[j]), now)]
           IN IF NeedsLaunch THEN [t EXCEPT !.pc = "launchS", !.browser = NULL]
              ELSE Enter(j, t, browserInstance, "capture")]
    /\ pages' = IF Opened(j, "capture") THEN pages \cup {j} ELSE pages

\* the imageToBase64 calls of scrapeTwitter, made after context.close()
Inline(j) ==
    /\ Running
    /\ task[j].pc = "inline"
    /\ ToScreenshot(j)
    /\ UNCHANGED <<envVars, mainVars, k, browserVars, contexts, scraped, files, now>>

\* the extractors that use fetchHTML / fetchJSON and imageToBase64 only
Fetch(j) ==
    /\ Running
    /\ task[j].pc = "fetch"
    /\ IF World(urls[j]).extract = "ok"
       THEN ToScreenshot(j)
       ELSE /\ task' = [task EXCEPT ![j] = Caught(j, "extraction failed")]
            /\ UNCHANGED pages
    /\ UNCHANGED <<envVars, mainVars, k, browserVars, contexts, scraped, files, now>>

\* page.setContent, the image wait, the .card bounding box and
\* page.screenshot({path: filename}); then page.close() is called.
\* An error in any of them leaves generateScreenshot before page.close().
Capture(j) ==
    /\ Running
    /\ task[j].pc = "capture"
    /\ IF World(urls[j]).card = "ok" /\ task[j].browser \notin closedB
       THEN /\ files' = files \cup {FileName(task[j].base, "card", 0)}
            /\ task' = [task EXCEPT ![j] = [@ EXCEPT !.pc = "pageClose"]]
       ELSE /\ task' = [task EXCEPT ![j] = Caught(j, "screenshot failed")]
            /\ UNCHANGED files
    /\ UNCHANGED <<envVars, mainVars, k, browserVars, pages, contexts, scraped, now>>

\* buildMetadataPayload and fs.writeFileSync(metadataFilename, ...), then the
\* success result: the synchronous end of processUrl
WriteMetadata(j, imgs) ==
    IF diskOk
    THEN /\ files' = files \cup {FileName(task[j].base, "metadata", 0)}
         /\ task' = [task EXCEPT ![j] = [@ EXCEPT !.pc = "done",
                !.downloaded = imgs,
                !.out = Success(urls[j], task[j].base, imgs)]]
    ELSE /\ task' = [task EXCEPT ![j] = Caught(j, "metadata write failed")]
         /\ UNCHANGED files

\* (variant) generateScreenshot ends with closeBrowser() instead of
\* page.close(): the shared engine is closed and the handle emptied
PageCloseShutsBrowser(j) ==
    /\ Running
    /\ task[j].pc = "pageClose"
    /\ closedB' = closedB \cup ({browserInstance} \ {NULL})
    /\ browserInstance' = NULL
    /\ pages' = {p \in pages : task[p].browser # browserInstance} \ {j}
    /\ IF Len(World(urls[j]).media) > 0
       THEN /\ task' = [task EXCEPT ![j] = [@ EXCEPT !.pc = "download", !.img = 1]]
            /\ UNCHANGED files
       ELSE WriteMetadata(j, <<>>)
    /\ UNCHANGED <<envVars, mainVars, k, launched, contexts, scraped, now>>

\* await page.close() resumes, generateScreenshot returns; the download loop
\* starts (its first downloadImage call) or, with no original image, the
\* metadata is written
PageClose(j) ==
    /\ Running
    /\ task[j].pc = "pageClose"
    /\ pages' = pages \ {j}
    /\ IF Len(World(urls[j]).media) > 0
       THEN /\ task' = [task EXCEPT ![j] = [@ EXCEPT !.pc = "download", !.img = 1]]
            /\ UNCHANGED files
       ELSE WriteMetadata(j, <<>>)
    /\ UNCHANGED <<envVars, mainVars, k, browserVars, contexts, scraped, now>>

\* (variant) the file name is pushed whatever downloadImage resolved to
AnyResult(what) == what \in {"saved", "absent"}

\* if (result): downloadImage resolved to the path of the written file
HasResult(what) == what = "saved"

\* one await downloadImage(imgUrl, imgFilename) resumes: the file name is
\* `${baseFilename}-image-${i + 1}.${ext}` and it is recorded when the
\* download gave a path; after the last one the metadata is written
Download(j) ==
    /\ Running
    /\ task[j].pc = "download"
    /\ LET n == task[j].img
           what == World(urls[j]).media[n]
           name == FileName(task[j].base, "image", n)
           imgs == IF HasResult(what) THEN Append(task[j].downloaded, name)
                   ELSE task[j].downloaded
       IN IF what = "throws"
          THEN /\ task' = [task EXCEPT ![j] = Caught(j, "Invalid URL")]
               /\ UNCHANGED files
          ELSE IF n < Len(World(urls[j]).media)
          THEN /\ task' = [task EXCEPT ![j] = [@ EXCEPT !.img = n + 1,
                                                  !.downloaded = imgs]]
               /\ files' = IF what = "saved" THEN files \cup {name} ELSE files
          ELSE IF diskOk
          THEN /\ files' = (IF what = "saved" THEN files \cup {name} ELSE files)
                              \cup {FileName(task[j].base, "metadata", 0)}
               /\ task' = [task EXCEPT ![j] = [@ EXCEPT !.pc = "done",
                      !.downloaded = imgs,
                      !.out = Success(urls[j], task[j].base, imgs)]]
          ELSE /\ task' = [task EXCEPT ![j] = Caught(j, "metadata write failed")]
               /\ files' = IF what = "saved" THEN files \cup {name} ELSE files
    /\ UNCHANGED <<envVars, mainVars, k, browserVars, pages, contexts, scraped, now>>

-----------------------------------------------------------------------------

Next ==
    \/ \E j \in Items : Dispatch(j)
    \/ AwaitAll
    \/ CloseBrowser
    \/ CloseDone
    \/ \E j \in Items : LaunchDone(j)
    \/ \E j \in Items : Scrape(j)
    \/ \E j \in Items : Inline(j)
    \/ \E j \in Items : Fetch(j)
    \/ \E j \in Items : Capture(j)
    \/ \E j \in Items : PageClose(j)
    \/ \E j \in Items : Download(j)

Spec == Init /\ [][Next]_vars

-----------------------------------------------------------------------------
(* The function-level specifications apply one function of screenshot.js   *)
(* to inputs drawn from a bounded set; the pipeline is not running.        *)

pipelineVars == <<urls, concurrency, launchOk, diskOk, mainVars, k, task,
                  browserVars, pages, contexts, scraped, files, now>>

PipelineIdle ==
    /\ urls = <<>>
    /\ concurrency = 1
    /\ launchOk = TRUE
    /\ diskOk = TRUE
    /\ mainPc = "done"
    /\ fatal = FALSE
    /\ i = 0
    /\ k = 0
    /\ results = <<>>
    /\ task = <<>>
    /\ browserInstance = NULL
    /\ launched = 0
    /\ closedB = {}
    /\ pages = {}
    /\ contexts = {}
    /\ scraped = {}
    /\ files = {}
    /\ now = 0

-----------------------------------------------------------------------------
(* detectPlatform *)

InitClassify ==
    /\ PipelineIdle
    /\ unit \in {[UnitsIdle EXCEPT !.classify.url = u] : u \in ClassifyUrls}

\* detectPlatform(url), called once and then once more on the same string
Classify ==
    /\ classify.calls < 2
    /\ unit' = [unit EXCEPT
           !.classify.calls = @ + 1,
           !.classify.tag = IF classify.calls = 0 THEN detectPlatform(classify.url)
                            ELSE @,
           !.classify.again = IF classify.calls = 1 THEN detectPlatform(classify.url)
                              ELSE @]
    /\ UNCHANGED pipelineVars

NextClassify == Classify

SpecClassify == InitClassify /\ [][NextClassify]_vars

-----------------------------------------------------------------------------
(* generateFilename and the files of two captures of one batch *)

MaxClock == 2

Captures == {1, 2}

InitNaming ==
    /\ PipelineIdle
    /\ unit \in {[UnitsIdle EXCEPT !.naming.urls = <<u1, u2>>,
                                    !.naming.pc = <<"name", "name">>,
                                    !.naming.base = <<NoBase, NoBase>>] :
                    u1 \in NameUrls, u2 \in NameUrls}

\* a millisecond passes
Tick ==
    /\ naming.urls # <<>>
    /\ naming.clock < MaxClock
    /\ unit' = [unit EXCEPT !.naming.clock = @ + 1]
    /\ UNCHANGED pipelineVars

\* const baseFilename = generateFilename(url, platform).replace('.png', '')
NameFiles(c) ==
    /\ c \in DOMAIN naming.pc
    /\ naming.pc[c] = "name"
    /\ unit' = [unit EXCEPT
           !.naming.pc[c] = "card",
           !.naming.base[c] = generateFilename(naming.urls[c],
                                               detectPlatform(naming.urls[c]),
                                               naming.clock)]
    /\ UNCHANGED pipelineVars

\* page.screenshot({path: cardFilename}) and, later, fs.writeFileSync of the
\* metadata file: the file is created, or replaced when it exists; a file
\* of the other capture that is replaced is lost
WriteFile(c) ==
    /\ c \in DOMAIN naming.pc
    /\ naming.pc[c] \in {"card", "meta"}
    /\ LET f == FileName(naming.base[c],
                         IF naming.pc[c] = "card" THEN "card" ELSE "metadata", 0)
           others == {w \in naming.written : w.file = f /\ w.by # c}
       IN unit' = [unit EXCEPT
              !.naming.pc[c] = IF naming.pc[c] = "card" THEN "meta" ELSE "done",
              !.naming.written = (@ \ others) \cup {[file |-> f, by |-> c]},
              !.naming.lost = @ \cup others]
    /\ UNCHANGED pipelineVars

NextNaming ==
    \/ Tick
    \/ \E c \in Captures : NameFiles(c)
    \/ \E c \in Captures : WriteFile(c)

SpecNaming == InitNaming /\ [][NextNaming]_vars

-----------------------------------------------------------------------------
(* buildMetadataPayload *)

InitMetadata ==
    /\ PipelineIdle
    /\ unit \in {[UnitsIdle EXCEPT
                     !.metadata.data = [platform |-> p,
                                        fields |-> Extracted(p, avatar, n, text)],
                     !.metadata.pc = "start"] :
                    p \in PayloadPlatforms, avatar \in {"inline", "null"},
                    n \in 0 .. MaxImages, text \in {"text", "empty"}}

\* const metadataPayload = buildMetadataPayload(metadataSource || data, ...)
BuildMetadata ==
    /\ metadata.pc = "start"
    /\ unit' = [unit EXCEPT !.metadata.out = buildMetadataPayload(metadata.data),
                            !.metadata.pc = "built"]
    /\ UNCHANGED pipelineVars

NextMetadata == BuildMetadata

SpecMetadata == InitMetadata /\ [][NextMetadata]_vars

-----------------------------------------------------------------------------
(* the render functions *)

InitRender ==
    /\ PipelineIdle
    /\ unit \in {[UnitsIdle EXCEPT !.render.platform = p, !.render.variant = v,
                                    !.render.text = t, !.render.pc = "start"] :
                    p \in PayloadPlatforms, v \in {"standard", "bento"}, t \in Texts}

\* html = options.bento ? renderBento...Card(data) : render...Card(data)
Render ==
    /\ render.pc = "start"
    /\ unit' = [unit EXCEPT
           !.render.pc = "rendered",
           !.render.threw =
               ~(TemplateObjects(render.platform) \subseteq PayloadObjects(render.platform)),
           !.render.doc = Template(render.platform, render.variant, render.text)]
    /\ UNCHANGED pipelineVars

NextRender == Render

SpecRender == InitRender /\ [][NextRender]_vars

-----------------------------------------------------------------------------
(* the thread render functions *)

InitThread ==
    /\ PipelineIdle
    /\ unit \in {[UnitsIdle EXCEPT !.thread.tweets = tw, !.thread.variant = v,
                                    !.thread.pc = "start"] :
                    tw \in ThreadPayloads, v \in {"standard", "bento"}}

\* html = options.bento ? renderBentoTwitterThreadCard(threadData)
\*                       : renderTwitterThreadCard(threadData)
RenderThread ==
    /\ thread.pc = "start"
    /\ unit' = [unit EXCEPT
           !.thread.blocks = ThreadBlocks(thread.tweets, thread.variant),
           !.thread.pc = "rendered"]
    /\ UNCHANGED pipelineVars

NextThread == RenderThread

SpecThread == InitThread /\ [][NextThread]_vars

-----------------------------------------------------------------------------
(* the fetch-based extractors *)

ExtractorInputs ==
    {e \in [platform : ExtractPlatforms, pathOk : BOOLEAN, bridged : BOOLEAN,
            reply : [direct : Replies, resolve : Replies, post : Replies],
            n : 0 .. MaxMedia, bad : 0 .. MaxMedia] :
        /\ e.bad <= e.n
        \* only scrapeBluesky makes the direct lookup and the resolution, and
        \* the direct lookup only for a bridged handle
        /\ e.platform # "bluesky" =>
              ~e.bridged /\ e.reply.direct = "full" /\ e.reply.resolve = "full"
        /\ ~e.bridged => e.reply.direct = "full"
        \* the API has no post for the identity at://undefined
        /\ e.reply.resolve = "lacking" => e.reply.post # "full"
        \* a document without the post has no media
        /\ (\A c \in DOMAIN e.reply : e.reply[c] # "full") => e.n = 0}

InitExtractor ==
    /\ PipelineIdle
    /\ unit \in {[UnitsIdle EXCEPT !.extractor =
                      [ExtractorIdle EXCEPT !.platform = e.platform, !.pathOk = e.pathOk,
                          !.bridged = e.bridged, !.reply = e.reply, !.n = e.n,
                          !.bad = e.bad, !.pc = "start"]] : e \in ExtractorInputs}

Throw == [unit EXCEPT !.extractor.outcome = "error", !.extractor.pc = "done"]

Return(payload) ==
    [unit EXCEPT !.extractor.outcome = "payload", !.extractor.payload = payload,
                 !.extractor.pc = "done"]

Call(name, pc) ==
    [unit EXCEPT !.extractor.calls = Append(@, name), !.extractor.pc = pc]

\* scrapeBluesky up to its first await: if (!match) throw; the direct lookup
\* for a bridged handle, the resolution otherwise
ScrapeBluesky ==
    /\ extractor.pc = "start" /\ extractor.platform = "bluesky"
    /\ unit' = IF ~extractor.pathOk THEN Throw
               ELSE IF extractor.bridged THEN Call("direct", "direct")
               ELSE Call("resolve", "resolve")
    /\ UNCHANGED pipelineVars

\* the direct lookup settles
BlueskyDirect ==
    /\ extractor.pc = "direct"
    /\ unit' = IF AfterDirect(extractor.reply.direct) = "format"
               THEN [unit EXCEPT !.extractor.pc = "format"]
               ELSE Call("resolve", "resolve")
    /\ UNCHANGED pipelineVars

\* resolveData = await fetchJSON(resolveUrl); did = resolveData.did; the post
\* fetch is issued also when did is undefined
BlueskyResolve ==
    /\ extractor.pc = "resolve"
    /\ unit' = IF extractor.reply.resolve = "throws" THEN Throw
               ELSE Call("post", "post")
    /\ UNCHANGED pipelineVars

\* threadData = await fetchJSON(threadUrl); if (!post) throw
BlueskyFetch ==
    /\ extractor.pc = "post" /\ extractor.platform = "bluesky"
    /\ unit' = IF extractor.reply.post = "full"
               THEN [unit EXCEPT !.extractor.pc = "format"]
               ELSE Throw
    /\ UNCHANGED pipelineVars

formatBlueskyPost ==
    /\ extractor.pc = "format"
    /\ unit' = Return(FullPayload("bluesky", extractor.n, extractor.bad))
    /\ UNCHANGED pipelineVars

\* scrapeMastodon up to its await: if (!match) throw
ScrapeMastodon ==
    /\ extractor.pc = "start" /\ extractor.platform = "mastodon"
    /\ unit' = IF ~extractor.pathOk THEN Throw ELSE Call("post", "post")
    /\ UNCHANGED pipelineVars

\* scrapeMacrumors and scrapeThreads up to their await: the URL is fetched
\* whatever its path is
ScrapePage ==
    /\ extractor.pc = "start" /\ extractor.platform \in {"macrumors", "threads"}
    /\ unit' = Call("post", "post")
    /\ UNCHANGED pipelineVars

\* the rest of scrapeMastodon, scrapeMacrumors and scrapeThreads: every
\* field is read with ?. and || default
FormatDocument ==
    /\ extractor.pc = "post" /\ extractor.platform # "bluesky"
    /\ unit' = CASE extractor.reply.post = "throws" -> Throw
                 [] extractor.reply.post = "lacking" ->
                        Return(DefaultPayload(extractor.platform))
                 [] OTHER ->
                        Return(FullPayload(extractor.platform, extractor.n, extractor.bad))
    /\ UNCHANGED pipelineVars

NextExtractor ==
    \/ ScrapeBluesky \/ BlueskyDirect \/ BlueskyResolve \/ BlueskyFetch
    \/ formatBlueskyPost \/ ScrapeMastodon \/ ScrapePage \/ FormatDocument

SpecExtractor == InitExtractor /\ [][NextExtractor]_vars

-----------------------------------------------------------------------------
(* scrapeTwitter / scrapeTwitterThread *)

InitTwitter ==
    /\ PipelineIdle
    /\ unit \in {[UnitsIdle EXCEPT !.twitter =
                      [TwitterIdle EXCEPT !.threadMode = th, !.urlOk = ok, !.fails = f,
                                          !.page = pg, !.pc = "start"]] :
                    th \in BOOLEAN, ok \in BOOLEAN, f \in FailPoints, pg \in Pages}

\* the call rejects; nothing is done about the context
Reject == [unit EXCEPT !.twitter.outcome = "error", !.twitter.pc = "done"]

\* catch (e) { await context.close(); throw new Error(...) }
CatchClose ==
    [unit EXCEPT !.twitter.context = "closed", !.twitter.outcome = "error",
                 !.twitter.pc = "done"]

\* if (!match) throw; const browser = await getBrowser()
TwitterStart ==
    /\ twitter.pc = "start"
    /\ unit' = IF twitter.urlOk THEN [unit EXCEPT !.twitter.pc = "newContext"]
               ELSE Reject
    /\ UNCHANGED pipelineVars

\* const context = await browser.newContext({...}), before the try block
NewContext ==
    /\ twitter.pc = "newContext"
    /\ unit' = IF twitter.fails = "newContext" THEN Reject
               ELSE [unit EXCEPT !.twitter.context = "open", !.twitter.pc = "newPage"]
    /\ UNCHANGED pipelineVars

\* const page = await context.newPage(), before the try block
NewPage ==
    /\ twitter.pc = "newPage"
    /\ unit' = IF twitter.fails = "newPage" THEN Reject
               ELSE [unit EXCEPT !.twitter.pc = "goto"]
    /\ UNCHANGED pipelineVars

\* try { await page.goto(embedUrl, ...); the waits
Goto ==
    /\ twitter.pc = "goto"
    /\ unit' = IF twitter.fails = "goto" THEN CatchClose
               ELSE [unit EXCEPT !.twitter.pc = "evaluate"]
    /\ UNCHANGED pipelineVars

\* data / tweets = await page.evaluate(...)
Evaluate ==
    /\ twitter.pc = "evaluate"
    /\ unit' = IF twitter.fails = "evaluate" THEN CatchClose
               ELSE [unit EXCEPT
                       !.twitter.tweets = IF twitter.threadMode
                                          THEN EvaluateThread(twitter.page) ELSE <<>>,
                       !.twitter.pc = "close"]
    /\ UNCHANGED pipelineVars

\* await context.close(); if (tweets.length === 0) throw (thread only), which
\* the catch block answers with a second context.close()
ContextClose ==
    /\ twitter.pc = "close"
    /\ unit' = IF twitter.threadMode /\ twitter.tweets = <<>> THEN CatchClose
               ELSE [unit EXCEPT !.twitter.context = "closed", !.twitter.pc = "inline"]
    /\ UNCHANGED pipelineVars

\* the imageToBase64 calls and the return
Materialize ==
    /\ twitter.pc = "inline"
    /\ unit' = IF twitter.fails = "imageToBase64" THEN CatchClose
               ELSE [unit EXCEPT !.twitter.outcome = "payload", !.twitter.pc = "done"]
    /\ UNCHANGED pipelineVars

NextTwitter ==
    \/ TwitterStart \/ NewContext \/ NewPage \/ Goto \/ Evaluate \/ ContextClose
    \/ Materialize

SpecTwitter == InitTwitter /\ [][NextTwitter]_vars

-----------------------------------------------------------------------------
(* generateScreenshot *)

InitShot ==
    /\ PipelineIdle
    /\ unit \in {[UnitsIdle EXCEPT !.shot.doc = d, !.shot.fails = f,
                                    !.shot.pc = "start"] :
                    d \in Documents, f \in ShotFailPoints}

ShotRejects == [unit EXCEPT !.shot.pc = "rejected"]

\* const browser = await getBrowser(); const page = await browser.newPage()
ShotNewPage ==
    /\ shot.pc = "start"
    /\ unit' = IF shot.fails = "newPage" THEN ShotRejects
               ELSE [unit EXCEPT !.shot.page = "open", !.shot.pc = "setContent"]
    /\ UNCHANGED pipelineVars

\* await page.setContent(html, { waitUntil: 'networkidle' }); it rejects when
\* the library's own navigation timeout passes.  When it resolves the wait
\* for the images starts: page.evaluate reads img.complete of each element.
SetContent ==
    /\ shot.pc = "setContent"
    /\ unit' = IF shot.fails = "setContent" THEN ShotRejects
               ELSE [unit EXCEPT
                       !.shot.status = [n \in DOMAIN shot.doc |->
                            IF shot.doc[n] = "complete" THEN "complete" ELSE "pending"],
                       !.shot.pc = "wait"]
    /\ UNCHANGED pipelineVars

\* img.onload = resolve
ImgLoad(n) ==
    /\ shot.pc = "wait"
    /\ shot.doc[n] = "loads" /\ shot.status[n] = "pending"
    /\ unit' = [unit EXCEPT !.shot.status[n] = "loaded"]
    /\ UNCHANGED pipelineVars

\* img.onerror = resolve
ImgError(n) ==
    /\ shot.pc = "wait"
    /\ shot.doc[n] = "errors" /\ shot.status[n] = "pending"
    /\ unit' = [unit EXCEPT !.shot.status[n] = "errored"]
    /\ UNCHANGED pipelineVars

\* the page.evaluate of the wait resolves: Promise.all is fulfilled.  Nothing
\* else ends the wait: the call passes no timeout and races no timer.
ImagesLoaded ==
    /\ shot.pc = "wait"
    /\ AllImagesSettled(shot.status)
    /\ unit' = [unit EXCEPT !.shot.pc = "screenshot"]
    /\ UNCHANGED pipelineVars

\* locator, boundingBox, await page.screenshot({ path: filename, ... })
Screenshot ==
    /\ shot.pc = "screenshot"
    /\ unit' = IF shot.fails = "screenshot" THEN ShotRejects
               ELSE [unit EXCEPT !.shot.written = TRUE, !.shot.pc = "close"]
    /\ UNCHANGED pipelineVars

\* await page.close(); return filename
ShotPageClose ==
    /\ shot.pc = "close"
    /\ unit' = [unit EXCEPT !.shot.page = "closed", !.shot.pc = "returned"]
    /\ UNCHANGED pipelineVars

NextShot ==
    \/ ShotNewPage \/ SetContent
    \/ \E n \in DOMAIN shot.doc : ImgLoad(n)
    \/ \E n \in DOMAIN shot.doc : ImgError(n)
    \/ ImagesLoaded \/ Screenshot \/ ShotPageClose

SpecShot == InitShot /\ [][NextShot]_vars

-----------------------------------------------------------------------------
(* processUrl, file by file *)

InitItem ==
    /\ PipelineIdle
    /\ unit \in {[UnitsIdle EXCEPT !.item =
                      [ItemIdle EXCEPT !.known = kn, !.extract = ex, !.card = cd,
                                       !.media = md, !.disk = dk, !.pc = "start"]] :
                    kn \in BOOLEAN, ex \in {"ok", "throws"}, cd \in {"ok", "throws"},
                    md \in MediaLists, dk \in BOOLEAN}

\* return { success: false, url, error }, from the unknown-platform test or
\* from the catch block
ItemFails(it, stage) == [it EXCEPT !.failedAt = stage, !.pc = "done"]

\* fs.writeFileSync(metadataFilename, ...) and return { success: true, ... }
ItemMetadata(it) ==
    IF it.disk
    THEN [it EXCEPT !.written = Append(@, Artifact("metadata", 0)),
                    !.success = TRUE, !.pc = "done"]
    ELSE ItemFails(it, "metadata")

\* detectPlatform; if (platform === 'unknown') return failure; the extractor
\* is called
ItemClassify ==
    /\ item.pc = "start"
    /\ unit' = [unit EXCEPT !.item = IF item.known THEN [item EXCEPT !.pc = "extract"]
                                     ELSE ItemFails(item, "classify")]
    /\ UNCHANGED pipelineVars

\* the extractor settles; render, generateFilename, generateScreenshot is
\* called
ItemExtract ==
    /\ item.pc = "extract"
    /\ unit' = [unit EXCEPT !.item = IF item.extract = "ok" THEN [item EXCEPT !.pc = "card"]
                                     ELSE ItemFails(item, "extract")]
    /\ UNCHANGED pipelineVars

\* generateScreenshot settles: the card file exists; the first downloadImage
\* is called or, without original images, the metadata is written
ItemCard ==
    /\ item.pc = "card"
    /\ unit' = [unit EXCEPT !.item =
           IF item.card # "ok" THEN ItemFails(item, "card")
           ELSE LET it == [item EXCEPT !.written = Append(@, Artifact("card", 0))]
                IN  IF Len(item.media) > 0 THEN [it EXCEPT !.i = 1, !.pc = "download"]
                    ELSE ItemMetadata(it)]
    /\ UNCHANGED pipelineVars

\* one downloadImage settles: if (result) downloadedImages.push(...); the
\* next one is called or, after the last, the metadata is written
ItemDownload ==
    /\ item.pc = "download"
    /\ LET n == imgUrlIndex(item.i, Len(item.media))
           what == item.media[n]
           it == IF what = "saved"
                 THEN [item EXCEPT !.written = Append(@, Artifact("image", n)),
                                   !.downloadedImages = Append(@, n)]
                 ELSE item
       IN unit' = [unit EXCEPT !.item =
              IF what = "throws" THEN ItemFails(item, "download")
              ELSE IF item.i < Len(item.media) THEN [it EXCEPT !.i = item.i + 1]
              ELSE ItemMetadata(it)]
    /\ UNCHANGED pipelineVars

NextItem == ItemClassify \/ ItemExtract \/ ItemCard \/ ItemDownload

SpecItem == InitItem /\ [][NextItem]_vars

-----------------------------------------------------------------------------
(* the concurrency option and the wave loop *)

\* both entry points call processInParallel only for two URLs or more; the
\* command line gives --parallel a non-empty value
InitBatch ==
    /\ PipelineIdle
    /\ unit \in {[UnitsIdle EXCEPT !.batch =
                      [BatchIdle EXCEPT !.entry = e, !.arg = a, !.len = n,
                                        !.runs = [m \in 0 .. n - 1 |-> 0],
                                        !.pc = "start"]] :
                    e \in {"cli", "ui"}, a \in ArgStrings, n \in 2 .. MaxBatch}
    /\ batch.entry = "cli" => batch.arg # <<>>

\* parseArgs / the capture handler compute the number and processInParallel
\* is called with it: let i = 0
ReadParallel ==
    /\ batch.pc = "start"
    /\ unit' = [unit EXCEPT
           !.batch.concurrency = ConcurrencyOf(batch.entry, batch.arg),
           !.batch.at = 0, !.batch.pc = "loop"]
    /\ UNCHANGED pipelineVars

\* one iteration of the loop: the calls of the slice are made, all of them
\* settle, i += concurrency
Wave ==
    /\ batch.pc = "loop"
    /\ batch.at < batch.len * Scale
    /\ batch.waves < MaxWaves
    /\ LET taken == SliceOf(batch.len, batch.at, batch.at + batch.concurrency)
       IN unit' = [unit EXCEPT
              !.batch.runs = [m \in DOMAIN @ |-> IF m \in taken THEN @[m] + 1 ELSE @[m]],
              !.batch.at = @ + batch.concurrency,
              !.batch.waves = @ + 1]
    /\ UNCHANGED pipelineVars

\* i < urls.length is false: return results
BatchReturn ==
    /\ batch.pc = "loop"
    /\ batch.at >= batch.len * Scale
    /\ unit' = [unit EXCEPT !.batch.pc = "done"]
    /\ UNCHANGED pipelineVars

NextBatch == ReadParallel \/ Wave \/ BatchReturn

SpecBatch == InitBatch /\ [][NextBatch]_vars

-----------------------------------------------------------------------------
(* imageToBase64 / downloadImage *)

InitImage ==
    /\ PipelineIdle
    /\ unit \in {[UnitsIdle EXCEPT !.image.fn = f, !.image.url = u,
                                    !.image.script = sc, !.image.pc = "start"] :
                    f \in {"imageToBase64", "downloadImage"}, u \in ImgUrls,
                    sc \in Scripts}

\* The executor of the promise, for the first call and for the call made on
\* a redirect: a falsy url resolves null; protocol.get throws on a string
\* that is no absolute URL, and the throw rejects the promise (the outer
\* promise too, through .then(resolve).catch(reject)); else the request is
\* sent.
Request(im, url) ==
    IF url = "" THEN [im EXCEPT !.pc = "settled", !.out = "null"]
    ELSE IF ~ParsesAsUrl(url) THEN [im EXCEPT !.pc = "settled", !.out = "rejected"]
    ELSE [im EXCEPT !.pc = "wait", !.hop = @ + 1]

ImgCall ==
    /\ image.pc = "start"
    /\ unit' = [unit EXCEPT !.image = Request(image, image.url)]
    /\ UNCHANGED pipelineVars

\* the response callback, or the request's 'error' event
ImgResponse ==
    /\ image.pc = "wait"
    /\ LET r == image.script[image.hop] IN
         unit' = [unit EXCEPT !.image =
           IF r.status = 0 THEN [image EXCEPT !.pc = "settled", !.out = "null"]
           ELSE IF IsRedirect(r) THEN Request(image, r.location)
           ELSE IF image.fn = "downloadImage" /\ r.status # 200
                THEN [image EXCEPT !.pc = "settled", !.out = "null", !.final = r.status]
           ELSE [image EXCEPT !.pc = "body", !.final = r.status,
                              !.file = (image.fn = "downloadImage")]]
    /\ UNCHANGED pipelineVars

\* the end of the response body: imageToBase64 resolves the data URI on
\* 'end' and null on the response's 'error'; downloadImage resolves the path
\* on the file stream's 'finish' and null on its 'error', and has no
\* listener for the response's 'error' (the promise is then never settled)
ImgBody ==
    /\ image.pc = "body"
    /\ LET r == image.script[image.hop] IN
         unit' = [unit EXCEPT !.image =
           IF image.fn = "imageToBase64"
           THEN [image EXCEPT !.pc = "settled",
                              !.out = IF r.body = "resError" THEN "null" ELSE "data"]
           ELSE IF r.body = "end" THEN [image EXCEPT !.pc = "settled", !.out = "path"]
           ELSE IF r.body = "fileError"
                THEN [image EXCEPT !.pc = "settled", !.out = "null", !.file = FALSE]
           ELSE [image EXCEPT !.pc = "lost"]]
    /\ UNCHANGED pipelineVars

NextImage ==
    \/ ImgCall
    \/ ImgResponse
    \/ ImgBody

SpecImage == InitImage /\ [][NextImage]_vars

-----------------------------------------------------------------------------
(* Definitions used by the properties *)

\* processInParallel has returned its results to main
Returned == mainPc \in {"close", "closing", "done"} /\ ~fatal

\* the processUrl calls that have started and not yet produced their result
InFlight == {j \in Items : task[j].pc \notin {"idle", "done", "rejected"}}

\* number of the wave (0, 1, ...) that input position j belongs to
WaveOf(j) == (j - 1) \div concurrency

\* chromium.launch() calls made so far (pending ones included)
LaunchCalls ==
    launched + Cardinality({j \in Items : task[j].pc \in {"launchX", "launchS"}})

\* processUrl(u) run to completion with nothing else running; handle tells
\* whether browserInstance holds an instance when it starts
SeqTask(u, handle) ==
    LET p == detectPlatform(u)
        w == World(u)
        inSwitch == p \in BrowserPlatforms \cup FetchPlatforms
        scraperBrowser == p \in BrowserPlatforms /\ ValidTwitterUrl(u)
        h1 == handle \/ (scraperBrowser /\ launchOk)
        extractOk == /\ ~IsUnknown(p)
                     /\ inSwitch
                     /\ p \in BrowserPlatforms => (scraperBrowser /\ h1)
                     /\ w.extract = "ok"
        h2 == h1 \/ (extractOk /\ launchOk)
        cardOk == extractOk /\ h2 /\ w.card = "ok"
        mediaOk == \A n \in DOMAIN w.media : w.media[n] # "throws"
    IN [success |-> cardOk /\ mediaOk /\ diskOk, handle |-> h2]

\* the success flags of processInParallel(urls, outputDir, 1): the calls one
\* after the other, from input position n on
RECURSIVE SeqRun(_, _)
SeqRun(n, handle) ==
    IF n > Len(urls) THEN <<>>
    ELSE LET r == SeqTask(urls[n], handle)
         IN <<r.success>> \o SeqRun(n + 1, r.handle)

\* what buildMetadataPayload puts into the metadata record of a successful
\* capture as file names: card, and media.downloaded
MetadataNames(j) ==
    {FileName(task[j].base, "card", 0)}
        \cup {task[j].downloaded[n] : n \in DOMAIN task[j].downloaded}

\* the flag of processUrl(u) in a run of its own
AloneSucceeds(u) == SeqTask(u, FALSE).success

-----------------------------------------------------------------------------
(* Properties *)

\* C1: processInParallel returns exactly one result per input URL and the
\* j-th result carries the j-th input URL, for every concurrency and every
\* order in which the per-URL executions finish.
C1_OneResultPerUrlInOrder ==
    /\ Len(results) <= Len(urls)
    /\ \A j \in 1 .. Len(results) : results[j].url = urls[j]
    /\ Returned => Len(results) = Len(urls)

C1_Witness ==
    /\ mainPc = "done"
    /\ concurrency = 2
    /\ Len(results) = 3
    /\ results[1].url # results[2].url
    /\ results[1].success /\ ~results[2].success /\ results[3].success

\* C2: at any moment at most `concurrency` processUrl calls have started
\* and not yet produced their result.
C2_InFlightBounded == Cardinality(InFlight) <= concurrency

C2_Witness ==
    /\ concurrency = 2
    /\ Cardinality(InFlight) = 2
    /\ \E j \in Items : task[j].pc = "idle"

\* C3: no processUrl call of a wave has started unless every call of every
\* earlier wave has produced its result and that result is in the result
\* list (a barrier between waves).
C3_WaveBarrier ==
    \A j, m \in Items :
        (task[j].pc # "idle" /\ WaveOf(m) < WaveOf(j))
            => /\ task[m].pc = "done"
               /\ m <= Len(results)
               /\ results[m] = task[m].out

C3_Witness ==
    \E j, m \in Items :
        /\ WaveOf(m) < WaveOf(j)
        /\ j \in InFlight
        /\ concurrency = 2
        /\ ~results[m].success

\* C4: when an item of the batch has failed, every other item is still
\* started, runs to its own result, and is in the result list with the
\* outcome it has in a run of its own; a successful one names its card file,
\* which is on disk.
C4_FailureIsolation ==
    mainPc = "done" =>
        /\ ~fatal
        /\ Len(results) = Len(urls)
        /\ \A j \in Items :
              (\E f \in Items : f # j /\ task[f].pc = "done" /\ ~task[f].out.success)
                => /\ task[j].pc = "done"
                   /\ results[j] = task[j].out
                   /\ results[j].url = urls[j]
                   /\ results[j].success = AloneSucceeds(urls[j])
                   /\ results[j].success =>
                         /\ results[j].cardFilename # NoFile
                         /\ results[j].cardFilename \in files

\* the scenario of the specification: 3 URLs, concurrency 2, item 2 unsupported
C4_Witness ==
    /\ mainPc = "done"
    /\ Len(urls) = 3
    /\ concurrency = 2
    /\ detectPlatform(urls[2]) = "unknown"
    /\ Len(results) = 3
    /\ results[1].success /\ results[1].cardFilename \in files
    /\ ~results[2].success /\ results[2].error = "Unknown platform"
    /\ results[3].success /\ results[3].cardFilename \in files

\* C5: processUrl never rejects: whatever stage fails, the call ends with a
\* result {success: false, url: the input URL, error: a message}.
C5_NeverRejects ==
    /\ ~fatal
    /\ \A j \in Items :
          /\ task[j].pc # "rejected"
          /\ task[j].pc = "done" =>
                /\ task[j].out.url = urls[j]
                /\ ~task[j].out.success => task[j].out.error \notin {"", "pending"}
                /\ task[j].out.success => (task[j].out.error = "" /\ AloneSucceeds(urls[j]))

\* failures of every stage in one run: extraction, rasterization, media
\* download
C5_Witness ==
    /\ mainPc = "done"
    /\ \E a, b, c \in Items :
          /\ results[a].error = "extraction failed"
          /\ results[b].error = "screenshot failed"
          /\ results[c].error = "Invalid URL"

\* failure of the metadata write
C5_WitnessWrite ==
    \E j \in Items : task[j].pc = "done" /\ task[j].out.error = "metadata write failed"

\* C6: for a URL the classifier does not match, processUrl returns a failed
\* result with the classification-miss message in its first step and changes
\* nothing else: no file, no extractor call, no browser launch or use.
C6_UnmatchedChangesNothing ==
    [][\A j \in Items :
          detectPlatform(urls[j]) = "unknown" =>
             IF task[j].pc = "idle" /\ task'[j].pc # "idle"
             THEN /\ task'[j].pc = "done"
                  /\ task'[j].out = Failure(urls[j], "Unknown platform")
                  /\ task'[j].browser = NULL
                  /\ j \notin scraped'
                  /\ UNCHANGED <<files, browserInstance, launched, closedB,
                                 pages, contexts, scraped>>
                  /\ LaunchCalls' = LaunchCalls
             ELSE task'[j] = task[j]]_vars

C6_Witness ==
    \E j \in Items :
        /\ detectPlatform(urls[j]) = "unknown"
        /\ task[j].pc = "done"
        /\ task[j].out = Failure(urls[j], "Unknown platform")
        /\ j \notin scraped
        /\ files # {}
        /\ browserInstance # NULL

\* C7: with the external outcome of every URL fixed, the success flag of
\* every URL under any concurrency equals its flag in the run of the same
\* list with concurrency 1, under every interleaving.
C7_SchedulerIndependent ==
    Returned => \A j \in Items : results[j].success = SeqRun(1, FALSE)[j]

\* a run with concurrent launches of the engine, successes and failures
C7_Witness ==
    /\ mainPc = "done"
    /\ concurrency = 2
    /\ Len(urls) = 3
    /\ launched >= 2
    /\ \E a, b \in Items : results[a].success /\ ~results[b].success
                           /\ detectPlatform(urls[b]) # "unknown"

\* C8: at most one engine instance is launched before the teardown: every
\* getBrowser caller gets the same instance, chromium.launch is performed at
\* most once, and no launched instance is left unreferenced.
C8_SingleEngine ==
    /\ launched <= 1
    /\ \A b \in 1 .. launched : b \in closedB \/ b = browserInstance
    /\ \A j \in Items :
          task[j].pc \in {"scrape", "capture", "pageClose"}
              => task[j].browser = browserInstance

\* C9: every page generateScreenshot has opened is closed once
\* generateScreenshot has settled, on success and on failure.
C9_PagesClosedWhenSettled ==
    \A j \in Items : task[j].pc \in {"download", "done", "rejected"} => j \notin pages

\* C10: at the end of the run the shared handle is empty, every engine
\* instance that was launched has been torn down, after all results were
\* collected, and no capture uses a closed instance.
C10_TornDownAtEnd ==
    /\ mainPc = "done" =>
          /\ browserInstance = NULL
          /\ \A b \in 1 .. launched : b \in closedB
    /\ closedB # {} => (Len(results) = Len(urls) \/ fatal)
    /\ \A j \in Items :
          task[j].pc \in {"scrape", "capture", "pageClose"}
              => task[j].browser \notin closedB

\* C11: a failure to launch the shared engine is fatal: it ends the whole
\* run (main rejects) instead of becoming the failed result of one item
\* while the batch goes on, and the handle is empty when the process ends.
C11_LaunchFailureFatal ==
    /\ \A j \in Items :
          (task[j].pc = "done" /\ task[j].out.error = "browser launch failed")
              => fatal
    /\ mainPc = "done" => browserInstance = NULL

\* C12: imageToBase64 and downloadImage never fail their caller: for every
\* URL string and every server behaviour the returned promise resolves (to a
\* value or to null) and never rejects.
C12_ImagePromiseNeverRejects ==
    image.pc = "settled" => image.out \in {"data", "path", "null"}

\* C13: when the final (non-redirect) response has a non-2xx status, both
\* functions resolve to null: no data URI is made of the error body and no
\* file is written.
C13_NonOkFinalIsAbsent ==
    (image.pc = "settled" /\ image.final # 0 /\ image.final \notin 200 .. 299)
        => (image.out = "null" /\ ~image.file)

\* the tags detectPlatform can return
Tags == {"twitter", "macrumors", "threads", "bluesky", "mastodon", "youtube",
         "tiktok", "article", "unknown"}

\* the substrings detectPlatform looks for
DomainPatterns == {"x.com", "twitter.com", "forums.macrumors.com", "threads.net",
                   "bsky.app", "youtube.com", "youtu.be", "tiktok.com",
                   "cultofmac.com", "newsletters."}

\* no pattern of detectPlatform matches the string
MatchesNothing(url) ==
    /\ \A s \in DomainPatterns : ~Includes(toLowerCase(url), s)
    /\ ~MatchesHandlePost(toLowerCase(url))

ExactDomainTag(url) ==
    LET host == toLowerCase(url)[1] IN
    IF HasSub(host, "youtube.com") \/ HasSub(host, "youtu.be") THEN "youtube"
    ELSE IF HasSub(host, "tiktok.com") THEN "tiktok"
    ELSE IF HasSub(host, "cultofmac.com") THEN "article"
    ELSE ""

\* C15: every exact-domain check comes before any heuristic check: a URL
\* whose host is an exactly-matched domain gets that domain's tag even when
\* its path has the /@handle/<digits> shape of the Mastodon heuristic.
C15_ExactDomainFirst ==
    (classify.calls >= 1 /\ ExactDomainTag(classify.url) # "")
        => classify.tag = ExactDomainTag(classify.url)

\* both captures have computed their base name
BothNamed == \A c \in DOMAIN naming.pc : naming.pc[c] # "name"

\* C16: two captures of different URLs running in the same batch never
\* compute the same base name (same platform or not, same millisecond or
\* not), so neither replaces a file of the other.
C16_DistinctUrlsDistinctNames ==
    (naming.urls # <<>> /\ naming.urls[1] # naming.urls[2])
        => /\ BothNamed => naming.base[1] # naming.base[2]
           /\ naming.lost = {}

\* C17: capturing the same URL again (a duplicate entry of the batch) gives
\* a base name that differs from the earlier one, so no earlier card or
\* metadata file is replaced.
C17_RepeatedCaptureNewName ==
    (naming.urls # <<>> /\ naming.urls[1] = naming.urls[2])
        => /\ BothNamed => naming.base[1] # naming.base[2]
           /\ naming.lost = {}

\* C18: when the run completes, every file name in the metadata record of a
\* successful capture (the card and each downloaded media file), and the
\* names in its result, name a file of the output directory; a media file
\* name is recorded only once its file is written.
C18_MetadataNamesExist ==
    /\ \A j \in Items :
          \A n \in DOMAIN task[j].downloaded : task[j].downloaded[n] \in files
    /\ mainPc = "done" =>
          \A j \in Items :
              task[j].out.success =>
                  /\ MetadataNames(j) \subseteq files
                  /\ task[j].out.cardFilename \in files
                  /\ task[j].out.metadataFilename \in files
                  /\ \A n \in DOMAIN task[j].out.imageFilenames :
                        task[j].out.imageFilenames[n] \in MetadataNames(j)

\* a run with a capture whose media file was saved and named, and a capture
\* whose first media download gave nothing
C18_Witness ==
    /\ mainPc = "done"
    /\ \E j \in Items : task[j].out.success /\ Len(task[j].out.imageFilenames) = 1
    /\ \E j \in Items : /\ World(urls[j]).media # <<>>
                        /\ World(urls[j]).media[1] = "absent"
                        /\ task[j].img = 2
                        /\ task[j].downloaded = <<>>

\* the properties of a payload that hold a data URI
InlineFields == {"avatar", "images", "image", "favicon", "thumbnail"}

\* C19: the metadata record built by buildMetadataPayload holds no inline
\* image data: for every extractor payload none of the inline properties
\* (author.avatar, images, image, favicon, thumbnail, and the same of every
\* tweet of a thread) is copied, at any depth, while the URL properties are.
C19_NoInlineInMetadata ==
    metadata.pc = "built" =>
        /\ \A e \in metadata.out :
              /\ e.kind # "inline"
              /\ \A n \in DOMAIN e.path : e.path[n] \notin InlineFields
        /\ \A e \in metadata.data.fields :
              e.kind = "url" =>
                  \E o \in metadata.out :
                      o.kind = "url" /\ o.path[Len(o.path)] = e.path[Len(e.path)]

\* a thread whose tweets carry inline avatars and images, four levels deep
C19_Witness ==
    /\ metadata.pc = "built"
    /\ metadata.data.platform = "twitter-thread"
    /\ Field(<<"tweets", "1", "author", "avatar">>, "inline") \in metadata.data.fields
    /\ Field(<<"tweets", "1", "images", "1">>, "inline") \in metadata.data.fields
    /\ Field(<<"tweets", "1", "author", "avatarUrl">>, "url") \in metadata.out

\* the text holds no raw '<' or '>' and every '&' of it starts an entity
IsEscapedText(text) ==
    \A n \in DOMAIN text :
        /\ text[n] \notin {"<", ">"}
        /\ text[n] = "&" =>
              \E e \in {Entities[x] : x \in DOMAIN Entities} :
                  /\ n + Len(e) - 1 <= Len(text)
                  /\ SubSeq(text, n, n + Len(e) - 1) = e

\* C20: for every supported platform and both variants, rendering a
\* well-formed payload does not throw, and every text property taken from
\* the source is in the document in escaped form only: no raw '<', '>' or
\* '&' of it reaches the markup.
C20_RenderEscapes ==
    render.pc = "rendered" =>
        /\ ~render.threw
        /\ \A n \in DOMAIN render.doc : IsEscapedText(render.doc[n].text)

\* C21: for a thread payload of n >= 1 posts both thread templates emit
\* exactly n post blocks, in the payload's order, with a connector line in
\* each of the first n - 1 blocks and none in the last.
C21_ThreadBlocks ==
    thread.pc = "rendered" =>
        /\ Len(thread.blocks) = Len(thread.tweets)
        /\ \A n \in DOMAIN thread.blocks :
              /\ thread.blocks[n].tweet = thread.tweets[n].id
              /\ thread.blocks[n].connector <=> n < Len(thread.tweets)

\* three different posts, rendered by the bento template
C21_Witness ==
    /\ thread.pc = "rendered"
    /\ thread.variant = "bento"
    /\ Len(thread.blocks) = 3
    /\ <<thread.blocks[1].tweet, thread.blocks[2].tweet, thread.blocks[3].tweet>>
          = <<"a", "b", "c">>
    /\ thread.blocks[2].connector /\ ~thread.blocks[3].connector

\* C22: every payload an extractor returns for a social post has at most 4
\* inline images, however many media references the page or the API
\* response contains.
C22_AtMostFourInline ==
    extractor.outcome = "payload" => Len(extractor.payload.images) <= InlineCap

\* a Mastodon status with five image attachments is returned with five
\* inline images
C22_FiveInline ==
    /\ extractor.outcome = "payload"
    /\ extractor.platform = "mastodon"
    /\ Len(extractor.payload.images) = 5

PlaceholderOnly(payload) ==
    payload.name = "Unknown" /\ payload.content = "" /\ payload.images = <<>>

\* C24: an extractor fails when something it requires is absent (the path
\* segment of the URL, the post or account fields of the API response, the
\* post container of the page); it never returns a payload built only from
\* placeholder defaults.
C24_AbsentIsAnError ==
    extractor.pc = "done" =>
        /\ ~extractor.pathOk => extractor.outcome = "error"
        /\ extractor.outcome = "payload" => ~PlaceholderOnly(extractor.payload)

\* the Mastodon API answers with an object that has no account and no
\* content, and scrapeMastodon returns a payload
C24_DefaultsReturned ==
    /\ extractor.platform = "mastodon"
    /\ extractor.reply.post = "lacking"
    /\ extractor.outcome = "payload"
    /\ PlaceholderOnly(extractor.payload)

C25_WitnessDirect ==
    /\ extractor.bridged /\ extractor.reply.direct = "full"
    /\ extractor.outcome = "payload"
    /\ extractor.calls = <<"direct">>

\* C23: in every thread payload scrapeTwitterThread returns, the first
\* entry of tweets is flagged isMainTweet and no other entry is, also when
\* leading post containers were dropped for having neither text nor media.
C23_FirstEntryIsMain ==
    twitter.threadMode /\ twitter.outcome = "payload" =>
        \A n \in DOMAIN twitter.tweets : twitter.tweets[n].isMainTweet <=> n = 1

\* the first container was dropped and the payload has no main tweet
C23_NoMainTweet ==
    /\ twitter.threadMode /\ twitter.outcome = "payload"
    /\ twitter.page[1] = "empty"
    /\ Len(twitter.tweets) = 2
    /\ \A n \in DOMAIN twitter.tweets : ~twitter.tweets[n].isMainTweet

\* C30: every browsing context scrapeTwitter or scrapeTwitterThread has
\* opened is closed by the time the call settles, on success and on every
\* error path, and it is closed before any image materialization starts.
C30_ContextClosed ==
    /\ twitter.pc = "done" => twitter.context # "open"
    /\ twitter.pc = "inline" => twitter.context = "closed"

\* page creation failed and the call has rejected with its context open
C30_ContextLeaked ==
    /\ twitter.pc = "done" /\ twitter.outcome = "error"
    /\ twitter.fails = "newPage"
    /\ twitter.context = "open"

\* C26: generateScreenshot always terminates: the screenshot is taken once
\* every embedded image is loaded or errored (an errored image does not
\* block it), and when some image never reaches such a state the call fails
\* in bounded time instead of waiting forever: a call that has not settled
\* can always take a step.
C26_ScreenshotTerminates ==
    /\ shot.written => AllImagesSettled(shot.status)
    /\ shot.pc \in {"idle", "returned", "rejected"} \/ ENABLED NextShot

\* the wait has started, one image has errored, another one fires no event,
\* and the call can do nothing any more
C26_WaitsForever ==
    /\ shot.pc = "wait"
    /\ \E n \in DOMAIN shot.doc : shot.status[n] = "errored"
    /\ \E n \in DOMAIN shot.doc : shot.doc[n] = "never"
    /\ ~ENABLED NextShot

\* the numbers in the names of the image files written so far
ImageNumbers(written) ==
    {written[m].n : m \in {x \in DOMAIN written : written[x].kind = "image"}}

\* C27: the persisted media files of one successful capture are numbered
\* 1..k without gaps, k being the number of files persisted, also when the
\* download of an earlier source URL failed and a later one succeeded.
C27_MediaNumberedWithoutGaps ==
    item.success =>
        ImageNumbers(item.written) = 1 .. Cardinality(ImageNumbers(item.written))

\* the first download gave nothing, the second was saved: the only media
\* file of the successful capture has number 2
C27_GapInNumbers ==
    /\ item.success
    /\ item.media = <<"absent", "saved">>
    /\ ImageNumbers(item.written) = {2}

\* C28: within one item the card is written first, then the media files one
\* at a time in the order of the source URL list, then the metadata record
\* last; success is returned only after the metadata record is written; an
\* item that fails in classification or extraction has written no file.
C28_ArtifactOrder ==
    /\ \A m \in DOMAIN item.written :
          /\ item.written[m].kind = "card" <=> m = 1
          /\ item.written[m].kind = "metadata" => m = Len(item.written)
          /\ \A x \in DOMAIN item.written :
                (x < m /\ item.written[x].kind = "image" /\ item.written[m].kind = "image")
                    => item.written[x].n < item.written[m].n
    /\ item.success =>
          /\ item.written # <<>>
          /\ item.written[Len(item.written)].kind = "metadata"
    /\ item.failedAt \in {"classify", "extract"} => item.written = <<>>

\* a successful item with three saved media files: five files in order
C28_Witness ==
    /\ item.success
    /\ item.written = <<Artifact("card", 0), Artifact("image", 1), Artifact("image", 2),
                        Artifact("image", 3), Artifact("metadata", 0)>>

\* an item whose extraction failed has settled without a file
C28_WitnessExtractFails ==
    item.pc = "done" /\ item.failedAt = "extract" /\ item.written = <<>>

\* C29: every concurrency value the entry points hand to processInParallel
\* is an integer that is at least 1, so each wave advances the loop (no
\* more waves than URLs) and the batch ends having run each URL exactly
\* once.
C29_ConcurrencyPositiveInteger ==
    batch.pc \in {"loop", "done"} =>
        /\ batch.concurrency % Scale = 0
        /\ batch.concurrency >= Scale
        /\ batch.waves <= batch.len
        /\ batch.pc = "done" => \A m \in DOMAIN batch.runs : batch.runs[m] = 1

\* --parallel -2 with two URLs: the loop has made more waves than there are
\* URLs, its index is negative and no URL has been run
C29_LoopGoesBackwards ==
    /\ batch.entry = "cli" /\ batch.arg = <<"-", "2">>
    /\ batch.concurrency = 0 - 2 * Scale
    /\ batch.pc = "loop" /\ batch.at < 0
    /\ batch.waves > batch.len
    /\ \A m \in DOMAIN batch.runs : batch.runs[m] = 0

\* --parallel 2 with three URLs: two waves, each URL run once
C29_ValidValue ==
    /\ batch.entry = "cli" /\ batch.arg = <<"2">> /\ batch.len = 3
    /\ batch.pc = "done" /\ batch.waves = 2
    /\ \A m \in DOMAIN batch.runs : batch.runs[m] = 1

=============================================================================
